---- MODULE Spec2Model ----
(***************************************************************************)
(* Model of ZEDv1_plotter/ZEDv1_pltview.py: the command-line guard, the    *)
(* camera/viewer set-up, the single-threaded poll loop with one-shot and   *)
(* continuous point-cloud saving, and the depth colour gradient of the     *)
(* injected vertex shader.                                                 *)
(*                                                                         *)
(* The camera SDK (pyzed.sl) and the viewer (ogl_viewer) are external:     *)
(* every status they return and every flag the viewer raises is a          *)
(* nondeterministic input of the action that calls them.                   *)
(***************************************************************************)
EXTENDS Integers, FiniteSets, Sequences, TLC

VARIABLES
    pc,                 \* position of the single thread of control
    input_svo_file,     \* opt.input_svo_file (kind of string given)
    ip_address,         \* opt.ip_address (kind of string given)
    input_source,       \* what parse_args configured on InitParameters
    dir_exists,         \* os.path.exists("point_clouds")
    makedirs_called,    \* os.makedirs(save_dir) was called by this process
    camera,             \* "none" | "open" | "failed" | "closed"
    viewer,             \* "none" | "running" | "exited"
    available,          \* what viewer.is_available() reports
    save_data,          \* viewer.save_data
    key_pressed,        \* viewer.key_pressed (NO_ATTR when the attribute is absent)
    recording_enabled,  \* local of main()
    frame_count,        \* local of main()
    grab_status,        \* status returned by the last zed.grab()
    err,                \* status returned by the last Mat.write()
    stdout,             \* the set of messages printed by the last step
    iter,               \* number of loop iterations started
    nRetrieve,          \* retrieve_measure calls in the current iteration
    nUpdate,            \* viewer.updateData calls in the current iteration
    nOneShot,           \* one-shot write attempts in the current iteration
    nCont,              \* continuous-recording write attempts in the current iteration
    toggled,            \* "none" | "on" | "off": what the 'r' key did in the current iteration
    saveRequests,       \* times the viewer raised save_data from False to True
    oneShotWrites,      \* one-shot write attempts since start
    contOK,             \* continuous-recording writes that returned SUCCESS since start
    contOKAtOn,         \* value of contOK when recording was last turned on
    depth,              \* shader: length(in_VertexRGBA.xyz), in millimetres
    b_color             \* shader: output colour <<r, g, b>>, or <<>> before the shader ran

progVars == <<pc, input_svo_file, ip_address, input_source, dir_exists,
              makedirs_called, camera, viewer, available, save_data,
              key_pressed, recording_enabled, frame_count, grab_status, err,
              stdout, iter, nRetrieve, nUpdate, nOneShot, nCont, toggled,
              saveRequests, oneShotWrites, contOK, contOKAtOn>>

shaderVars == <<depth, b_color>>

vars == <<progVars, shaderVars>>

----------------------------------------------------------------------------
(* Bounds of the model *)

MaxIter == 4          \* loop iterations explored

MaxDepth == 11000     \* largest vertex distance explored, in millimetres

ChannelScale == 100   \* colour-channel units per millimetre of normalised depth

----------------------------------------------------------------------------
(* Values of the external interfaces *)

SUCCESS == "SUCCESS"

FAILURE == "FAILURE"

ErrorCodes == {SUCCESS, FAILURE}

NO_ATTR == -1

ORD_R == 114

ORD_S == 115

KeyCodes == {0, ORD_R, ORD_S}

SvoInputs == {"", "file.svo", "file.avi"}

IpInputs == {"", "a.b.c.d:port", "a.b.c.d", "invalid"}

LoopPcs == {"loop", "grab", "save", "key", "record"}

----------------------------------------------------------------------------
(* A console line: its kind and the number it reports (0 when it has none) *)

MsgN(kind, n) == <<kind, n>>

Msg(kind) == MsgN(kind, 0)

Kinds(out) == {m[1] : m \in out}

(* parse_args: the input source it configures and the message it prints *)

EndsWithSvo(s) == s = "file.svo"

ValidIpPort(s) == s = "a.b.c.d:port"

ValidIp(s) == s = "a.b.c.d"

parse_args_source(svo, ip) ==
    IF svo # "" /\ EndsWithSvo(svo) THEN "svo"
    ELSE IF ip # "" THEN
        IF ValidIpPort(ip) THEN "stream_port"
        ELSE IF ValidIp(ip) THEN "stream"
        ELSE "live"
    ELSE "live"

parse_args_msg(svo, ip) ==
    IF svo # "" /\ EndsWithSvo(svo) THEN {Msg("using_svo")}
    ELSE IF ip # "" THEN
        IF ValidIpPort(ip) \/ ValidIp(ip) THEN {Msg("using_stream")}
        ELSE {Msg("invalid_ip")}
    ELSE {}

----------------------------------------------------------------------------
(* Initial state: the interpreter has parsed the command line *)

ProgInit ==
    /\ pc = "argcheck"
    /\ input_svo_file \in SvoInputs
    /\ ip_address \in IpInputs
    /\ input_source = "unset"
    /\ dir_exists \in BOOLEAN
    /\ makedirs_called = FALSE
    /\ camera = "none"
    /\ viewer = "none"
    /\ available = FALSE
    /\ save_data = FALSE
    /\ key_pressed = NO_ATTR
    /\ recording_enabled = FALSE
    /\ frame_count = 0
    /\ grab_status = "none"
    /\ err = "none"
    /\ stdout = {}
    /\ iter = 0
    /\ nRetrieve = 0
    /\ nUpdate = 0
    /\ nOneShot = 0
    /\ nCont = 0
    /\ toggled = "none"
    /\ saveRequests = 0
    /\ oneShotWrites = 0
    /\ contOK = 0
    /\ contOKAtOn = 0

ShaderIdle ==
    /\ depth = 0
    /\ b_color = <<>>

Init ==
    /\ ProgInit
    /\ ShaderIdle

ghostVars == <<iter, nRetrieve, nUpdate, nOneShot, nCont, toggled,
               saveRequests, oneShotWrites, contOK, contOKAtOn>>

loopVars == <<save_data, key_pressed, recording_enabled, frame_count,
              grab_status, err>>

optVars == <<input_svo_file, ip_address>>

----------------------------------------------------------------------------
(* __main__: the mutual-exclusion guard on the two input options *)

(* A guard that accepts only a replayable .svo name as "given" *)
BothInputsGivenSvoOnly(svo, ip) == svo # "" /\ EndsWithSvo(svo) /\ ip # ""

(* len(opt.input_svo_file) > 0 and len(opt.ip_address) > 0 *)
BothInputsGiven(svo, ip) == svo # "" /\ ip # ""

ArgCheck ==
    /\ pc = "argcheck"
    /\ IF BothInputsGiven(input_svo_file, ip_address)
       THEN /\ stdout' = {Msg("specify_only_one")}
            /\ pc' = "exited"
       ELSE /\ stdout' = {}
            /\ pc' = "main"
    /\ UNCHANGED <<optVars, input_source, dir_exists, makedirs_called, camera,
                   viewer, available, loopVars, ghostVars, shaderVars>>

(* main(): output directory, banner, InitParameters and parse_args *)
MainInit ==
    /\ pc = "main"
    /\ dir_exists' = TRUE
    /\ makedirs_called' = ~dir_exists
    /\ input_source' = parse_args_source(input_svo_file, ip_address)
    /\ stdout' = {Msg("banner")} \cup parse_args_msg(input_svo_file, ip_address)
    /\ pc' = "open"
    /\ UNCHANGED <<optVars, camera, viewer, available, loopVars, ghostVars,
                   shaderVars>>

(* main(): zed.open; any status other than SUCCESS ends the process *)
(* A status check that lets every status through *)
OpenFailedNever(status) == FALSE

(* status != sl.ERROR_CODE.SUCCESS *)
OpenFailed(status) == status # SUCCESS

OpenCamera ==
    /\ pc = "open"
    /\ \E status \in ErrorCodes :
          /\ camera' = IF status = SUCCESS THEN "open" ELSE "failed"
          /\ IF OpenFailed(status)
             THEN /\ stdout' = {Msg("error_opening")}
                  /\ pc' = "exited"
             ELSE /\ stdout' = {}
                  /\ pc' = "setup"
    /\ UNCHANGED <<optVars, input_source, dir_exists, makedirs_called, viewer,
                   available, loopVars, ghostVars, shaderVars>>

(* main(): viewer construction and the two locals of the loop.  Whether the *)
(* viewer class carries a key_pressed attribute is a property of the        *)
(* installed ogl_viewer module.                                             *)
SetupViewer ==
    /\ pc = "setup"
    /\ viewer' = "running"
    /\ available' = TRUE
    /\ save_data' = FALSE
    /\ key_pressed' \in {NO_ATTR, 0}
    /\ recording_enabled' = FALSE
    /\ frame_count' = 0
    /\ stdout' = {}
    /\ pc' = "loop"
    /\ UNCHANGED <<optVars, input_source, dir_exists, makedirs_called, camera,
                   grab_status, err, ghostVars, shaderVars>>

----------------------------------------------------------------------------
(* The poll loop of main() *)

iterVars == <<nRetrieve, nUpdate, nOneShot, nCont, toggled>>

setupVars == <<optVars, input_source, dir_exists, makedirs_called>>

(* while viewer.is_available(): the viewer pumps its window events, whose   *)
(* key callbacks may raise save_data, store a key code in key_pressed (when *)
(* the attribute exists) and close the window; then it reports available.   *)
IsAvailable ==
    /\ pc = "loop"
    /\ \E raise \in BOOLEAN, key \in KeyCodes \cup {NO_ATTR}, close \in BOOLEAN :
          /\ save_data' = (save_data \/ raise)
          /\ saveRequests' = IF raise /\ ~save_data THEN saveRequests + 1
                             ELSE saveRequests
          /\ key_pressed' = IF key_pressed = NO_ATTR \/ key = NO_ATTR
                            THEN key_pressed ELSE key
          /\ available' = (available /\ ~close)
    /\ IF available'
       THEN /\ iter < MaxIter
            /\ iter' = iter + 1
            /\ nRetrieve' = 0
            /\ nUpdate' = 0
            /\ nOneShot' = 0
            /\ nCont' = 0
            /\ toggled' = "none"
            /\ pc' = "grab"
       ELSE /\ UNCHANGED <<iter, iterVars>>
            /\ pc' = "cleanup"
    /\ stdout' = {}
    /\ UNCHANGED <<setupVars, camera, viewer, recording_enabled, frame_count,
                   grab_status, err, oneShotWrites, contOK, contOKAtOn,
                   shaderVars>>

(* A loop body that runs whatever zed.grab() returned *)
GrabSucceededAlways(status) == TRUE

(* zed.grab() == sl.ERROR_CODE.SUCCESS *)
GrabSucceeded(status) == status = SUCCESS

(* The if has no else branch: a failed grab prints nothing *)
GrabMsg(status) == {}

(* zed.grab(); on SUCCESS retrieve_measure and viewer.updateData *)
Grab ==
    /\ pc = "grab"
    /\ \E status \in ErrorCodes :
          /\ grab_status' = status
          /\ stdout' = GrabMsg(status)
          /\ IF GrabSucceeded(status)
             THEN /\ nRetrieve' = nRetrieve + 1
                  /\ nUpdate' = nUpdate + 1
                  /\ pc' = "save"
             ELSE /\ UNCHANGED <<nRetrieve, nUpdate>>
                  /\ pc' = "loop"
    /\ UNCHANGED <<setupVars, camera, viewer, available, save_data, key_pressed,
                   recording_enabled, frame_count, err, iter, nOneShot, nCont,
                   toggled, saveRequests, oneShotWrites, contOK, contOKAtOn,
                   shaderVars>>

(* A request that is kept for a retry when the write failed *)
SaveDataKeptOnFailure(e) == e # SUCCESS

(* viewer.save_data = False, after either outcome of the write *)
SaveDataAfterWrite(e) == FALSE

(* if viewer.save_data: one full-resolution retrieve and write, then the    *)
(* request is cleared                                                       *)
SaveOnce ==
    /\ pc = "save"
    /\ IF save_data
       THEN \E e \in ErrorCodes :
               /\ err' = e
               /\ stdout' = IF e = SUCCESS THEN {Msg("saved_to")}
                            ELSE {Msg("failed_to_save_point_cloud")}
               /\ save_data' = SaveDataAfterWrite(e)
               /\ nRetrieve' = nRetrieve + 1
               /\ nOneShot' = nOneShot + 1
               /\ oneShotWrites' = oneShotWrites + 1
       ELSE /\ stdout' = {}
            /\ UNCHANGED <<err, save_data, nRetrieve, nOneShot, oneShotWrites>>
    /\ pc' = "key"
    /\ UNCHANGED <<setupVars, camera, viewer, available, key_pressed,
                   recording_enabled, frame_count, grab_status, iter, nUpdate,
                   nCont, toggled, saveRequests, contOK, contOKAtOn, shaderVars>>

RKeyPressed(k) == k # NO_ATTR /\ k = ORD_R

(* A toggle that resets the counter in both directions *)
FrameCountResetOnAnyToggle(enabled, fc) == 0

(* frame_count = 0 only in the branch that enables recording *)
FrameCountAfterToggle(enabled, fc) == IF enabled THEN 0 ELSE fc

(* if hasattr(viewer, 'key_pressed') and viewer.key_pressed == ord('r') *)
KeyToggle ==
    /\ pc = "key"
    /\ IF RKeyPressed(key_pressed)
       THEN /\ recording_enabled' = ~recording_enabled
            /\ frame_count' = FrameCountAfterToggle(recording_enabled', frame_count)
            /\ stdout' = IF recording_enabled'
                         THEN {Msg("recording_enabled")}
                         ELSE {MsgN("recording_disabled", frame_count)}
            /\ key_pressed' = 0
            /\ toggled' = IF recording_enabled' THEN "on" ELSE "off"
            /\ contOKAtOn' = IF recording_enabled' THEN contOK ELSE contOKAtOn
       ELSE /\ stdout' = {}
            /\ UNCHANGED <<recording_enabled, frame_count, key_pressed, toggled,
                           contOKAtOn>>
    /\ pc' = "record"
    /\ UNCHANGED <<setupVars, camera, viewer, available, save_data, grab_status,
                   err, iter, nRetrieve, nUpdate, nOneShot, nCont, saveRequests,
                   oneShotWrites, contOK, shaderVars>>

(* A counter that counts attempted frames, failed ones included *)
FrameCountCountsAttempts(fc, e) == fc + 1

(* A counter that starts over when a write fails *)
FrameCountResetOnFailure(fc, e) == IF e = SUCCESS THEN fc + 1 ELSE 0

(* frame_count += 1 only when the write returned SUCCESS *)
FrameCountAfterWrite(fc, e) == IF e = SUCCESS THEN fc + 1 ELSE fc

(* if recording_enabled: one full-resolution retrieve and write per frame *)
Record ==
    /\ pc = "record"
    /\ IF recording_enabled
       THEN \E e \in ErrorCodes :
               /\ err' = e
               /\ frame_count' = FrameCountAfterWrite(frame_count, e)
               /\ stdout' = IF e = SUCCESS
                            THEN {MsgN("recording_frame", frame_count')}
                            ELSE {Msg("failed_to_save_frame")}
               /\ contOK' = IF e = SUCCESS THEN contOK + 1 ELSE contOK
               /\ nRetrieve' = nRetrieve + 1
               /\ nCont' = nCont + 1
       ELSE /\ stdout' = {}
            /\ UNCHANGED <<err, frame_count, contOK, nRetrieve, nCont>>
    /\ pc' = "loop"
    /\ UNCHANGED <<setupVars, camera, viewer, available, save_data, key_pressed,
                   recording_enabled, grab_status, iter, nUpdate, nOneShot,
                   toggled, saveRequests, oneShotWrites, contOKAtOn, shaderVars>>

(* after the loop: viewer.exit(), zed.close() *)
Cleanup ==
    /\ pc = "cleanup"
    /\ viewer' = "exited"
    /\ camera' = "closed"
    /\ stdout' = {Msg("application_closed")}
    /\ pc' = "closed"
    /\ UNCHANGED <<setupVars, available, loopVars, ghostVars, shaderVars>>

Next ==
    \/ ArgCheck
    \/ MainInit
    \/ OpenCamera
    \/ SetupViewer
    \/ IsAvailable
    \/ Grab
    \/ SaveOnce
    \/ KeyToggle
    \/ Record
    \/ Cleanup

Spec == Init /\ [][Next]_vars

----------------------------------------------------------------------------
(* POINTCLOUD_VERTEX_SHADER: the depth colour gradient.                     *)
(*                                                                          *)
(* Distances are in millimetres.  A normalised depth and a colour channel   *)
(* are exact rationals with denominator ONE = 9500 * ChannelScale, chosen   *)
(* so that (depth - min_depth) / (max_depth - min_depth), which is          *)
(* (depth - min_depth) * ChannelScale / ONE, and the thresholds 0.33 and    *)
(* 0.67 are integers: the arithmetic below is the shader's arithmetic       *)
(* without rounding.                                                        *)

min_depth == 500

max_depth == 10000

ONE == (max_depth - min_depth) * ChannelScale

T33 == (33 * ONE) \div 100

T67 == (67 * ONE) \div 100

clamp(x, lo, hi) == IF x < lo THEN lo ELSE IF x > hi THEN hi ELSE x

(* clamp((depth - min_depth) / (max_depth - min_depth), 0.0, 1.0) *)
normalized_depth(d) == clamp((d - min_depth) * ChannelScale, 0, ONE)

(* vec3(1.0, normalized_depth * 3.0, 0.0) *)
RedToYellow(nd) == <<ONE, nd * 3, 0>>

(* t = (normalized_depth - 0.33) * 3.0; vec3(1.0 - t, 1.0, t) *)
YellowToCyan(nd) ==
    LET t == (nd - T33) * 3
    IN  <<ONE - t, ONE, t>>

(* t = (normalized_depth - 0.67) * 3.0; vec3(0.0, 1.0 - t, 1.0) *)
CyanToBlue(nd) ==
    LET t == (nd - T67) * 3
    IN  <<0, ONE - t, ONE>>

Gradient(nd) ==
    IF nd < T33 THEN RedToYellow(nd)
    ELSE IF nd < T67 THEN YellowToCyan(nd)
    ELSE CyanToBlue(nd)

(* The program is idle while the shader runs on a vertex *)
ProgIdle ==
    /\ pc = "loop"
    /\ input_svo_file = ""
    /\ ip_address = ""
    /\ input_source = "live"
    /\ dir_exists = TRUE
    /\ makedirs_called = FALSE
    /\ camera = "open"
    /\ viewer = "running"
    /\ available = TRUE
    /\ save_data = FALSE
    /\ key_pressed = NO_ATTR
    /\ recording_enabled = FALSE
    /\ frame_count = 0
    /\ grab_status = "none"
    /\ err = "none"
    /\ stdout = {}
    /\ iter = 0
    /\ nRetrieve = 0
    /\ nUpdate = 0
    /\ nOneShot = 0
    /\ nCont = 0
    /\ toggled = "none"
    /\ saveRequests = 0
    /\ oneShotWrites = 0
    /\ contOK = 0
    /\ contOKAtOn = 0

(* A vertex at any distance from the camera: depth = length(in_VertexRGBA.xyz) *)
ShaderInit ==
    /\ ProgIdle
    /\ depth \in 0..MaxDepth
    /\ b_color = <<>>

(* void main(): b_color = vec4(color, 1.0) *)
ShaderMain ==
    /\ b_color = <<>>
    /\ b_color' = Gradient(normalized_depth(depth)) \o <<ONE>>
    /\ UNCHANGED <<depth, progVars>>

ShaderNext == ShaderMain

ShaderSpec == ShaderInit /\ [][ShaderNext]_vars

Shaded == b_color # <<>>

rgb == SubSeq(b_color, 1, 3)

PURE_RED == <<ONE, 0, 0>>

PURE_BLUE == <<0, 0, ONE>>

----------------------------------------------------------------------------
(* C4: the gradient saturates at both ends: every depth at or below the     *)
(* near bound is coloured pure red and every depth at or above the far      *)
(* bound is coloured pure blue.                                             *)
C4_SaturatesAtBothEnds ==
    Shaded =>
        /\ (depth <= min_depth => rgb = PURE_RED)
        /\ (depth >= max_depth => rgb = PURE_BLUE)

(* C5: the gradient is continuous at the segment boundaries: at normalised  *)
(* depth 0.33 the colour equals the value the red-to-yellow segment         *)
(* approaches, and at 0.67 it equals the value the yellow-to-cyan segment   *)
(* approaches, channel by channel.                                          *)
C5_ContinuousAtBoundaries ==
    Shaded =>
        /\ (normalized_depth(depth) = T33
              => rgb = RedToYellow(normalized_depth(depth)))
        /\ (normalized_depth(depth) = T67
              => rgb = YellowToCyan(normalized_depth(depth)))

(* C6: for every depth each of the red, green and blue output channels      *)
(* lies in the closed interval [0,1].                                       *)
C6_ChannelsInUnitInterval ==
    Shaded => \A i \in 1..3 : 0 <= rgb[i] /\ rgb[i] <= ONE

----------------------------------------------------------------------------
(* Properties of the program *)

BothGiven == input_svo_file # "" /\ ip_address # ""

NothingStarted ==
    /\ input_source = "unset"
    /\ ~makedirs_called
    /\ camera = "none"
    /\ viewer = "none"
    /\ iter = 0
    /\ nRetrieve = 0
    /\ nOneShot = 0
    /\ nCont = 0
    /\ oneShotWrites = 0
    /\ contOK = 0
    /\ err = "none"

(* C1: when both --input_svo_file and --ip_address are non-empty the        *)
(* program exits at the guard: main() is never entered, no camera is        *)
(* opened, no viewer is created, the output directory is not created and    *)
(* no point-cloud file is written.                                          *)
C1_BothInputsExitEarly ==
    BothGiven =>
        /\ pc \in {"argcheck", "exited"}
        /\ NothingStarted

C1_Witness ==
    /\ BothGiven
    /\ pc = "exited"
    /\ input_svo_file = "file.avi"
    /\ Msg("specify_only_one") \in stdout

(* C2: a zed.open status other than SUCCESS is fatal: the process exits     *)
(* without constructing the viewer, without entering the loop (no grab, no  *)
(* retrieve) and without attempting a point-cloud write.                    *)
C2_OpenFailureFatal ==
    camera = "failed" =>
        /\ pc = "exited"
        /\ viewer = "none"
        /\ iter = 0
        /\ grab_status = "none"
        /\ nRetrieve = 0
        /\ nUpdate = 0
        /\ nOneShot = 0
        /\ nCont = 0
        /\ oneShotWrites = 0
        /\ contOK = 0
        /\ err = "none"

C2_Witness ==
    /\ camera = "failed"
    /\ pc = "exited"
    /\ Msg("error_opening") \in stdout

WriteStep == (pc = "save" /\ save_data) \/ (pc = "record" /\ recording_enabled)

WriteFailedStep == WriteStep /\ err' # SUCCESS

WriteFailureLogged ==
    \/ (pc = "save" /\ Msg("failed_to_save_point_cloud") \in stdout')
    \/ (pc = "record" /\ Msg("failed_to_save_frame") \in stdout')

LoopExitsOnlyWhenUnavailable ==
    (pc \in LoopPcs /\ pc' \notin LoopPcs) => (pc = "loop" /\ ~available')

(* C3: a failed point-cloud write (one-shot or continuous) is recoverable:  *)
(* the failure is logged, the loop does not terminate, the recording flag   *)
(* and the frame counter keep their values, and the loop is left only when  *)
(* the viewer reports itself unavailable.                                   *)
C3_WriteFailureRecoverable ==
    [][ /\ WriteFailedStep =>
              /\ WriteFailureLogged
              /\ recording_enabled' = recording_enabled
              /\ frame_count' = frame_count
              /\ pc' \in LoopPcs
              /\ camera' = "open"
              /\ viewer' = "running"
              /\ available' = available
        /\ LoopExitsOnlyWhenUnavailable ]_vars

C3_Witness ==
    /\ err = FAILURE
    /\ pc = "grab"
    /\ iter >= 3
    /\ recording_enabled
    /\ frame_count = 1
    /\ contOK = 1

RToggleStep == pc = "key" /\ key_pressed = ORD_R

(* C7: the recording flag changes only in an iteration step that processes  *)
(* an 'r' key press; the frame counter never decreases except that it is    *)
(* reset to 0 by an 'r' key press that turns recording on; no grab result,  *)
(* write result or one-shot save resets either.                             *)
C7_FlagAndCounterChangeOnlyByToggle ==
    [][ /\ (recording_enabled' # recording_enabled => RToggleStep)
        /\ (frame_count' < frame_count =>
               /\ RToggleStep
               /\ recording_enabled'
               /\ frame_count' = 0)
        /\ (pc \in {"loop", "grab", "save", "record"} =>
               /\ recording_enabled' = recording_enabled
               /\ frame_count' >= frame_count) ]_vars

C7_Witness ==
    /\ pc = "record"
    /\ toggled = "on"
    /\ frame_count = 0
    /\ contOK >= 1

GrabFailedStep == pc = "grab" /\ grab_status' # SUCCESS

GrabFailureSkipsFrame ==
    /\ nRetrieve' = 0
    /\ nUpdate' = 0
    /\ nOneShot' = 0
    /\ nCont' = 0
    /\ oneShotWrites' = oneShotWrites
    /\ contOK' = contOK
    /\ err' = err
    /\ recording_enabled' = recording_enabled
    /\ frame_count' = frame_count
    /\ save_data' = save_data
    /\ key_pressed' = key_pressed
    /\ pc' = "loop"

(* C8 as stated: in an iteration whose zed.grab returns a status other than *)
(* SUCCESS the failure is logged, nothing is retrieved, shown or written,   *)
(* the flag, the counter and the viewer's pending save request and key      *)
(* press are unchanged, and the loop continues.                             *)
C8_GrabFailureLoggedAndSkipped ==
    [][ GrabFailedStep => (stdout' # {} /\ GrabFailureSkipsFrame) ]_vars

(* C8 amended: in an iteration whose zed.grab returns a status other than   *)
(* SUCCESS nothing is printed, nothing is retrieved, shown or written, the  *)
(* flag, the counter and the viewer's pending save request and key press    *)
(* are unchanged, and the loop continues with the next availability check.  *)
C8_GrabFailureSilentlySkipped ==
    [][ GrabFailedStep => (stdout' = {} /\ GrabFailureSkipsFrame) ]_vars

C8_Witness ==
    /\ pc = "loop"
    /\ grab_status = FAILURE
    /\ save_data
    /\ key_pressed = ORD_R
    /\ recording_enabled
    /\ frame_count = 1
    /\ nRetrieve = 0

ReportedOnDisable == {m[2] : m \in {x \in stdout : x[1] = "recording_disabled"}}

(* C9: the frame count reported when recording is turned off equals the     *)
(* number of continuous-recording writes that returned SUCCESS since        *)
(* recording was last turned on (failed writes and one-shot saves are not   *)
(* counted); the iteration that turns recording on makes one continuous     *)
(* write attempt and counts it when it succeeds; the iteration that turns   *)
(* recording off makes none.                                                *)
C9_ReportedCountIsSuccessfulWrites ==
    /\ \A n \in ReportedOnDisable : n = contOK - contOKAtOn
    /\ (recording_enabled => frame_count = contOK - contOKAtOn)
    /\ (pc = "loop" /\ toggled = "on" =>
           /\ nCont = 1
           /\ (frame_count = 1 <=> MsgN("recording_frame", 1) \in stdout)
           /\ (frame_count = 0 <=> Msg("failed_to_save_frame") \in stdout))
    /\ (pc = "loop" /\ toggled = "off" => nCont = 0)

C9_Witness ==
    /\ 2 \in ReportedOnDisable
    /\ oneShotWrites >= 1
    /\ iter >= 4

(* C10: each pending save request is served by exactly one one-shot write   *)
(* attempt, in the first iteration whose grab succeeds, and is cleared      *)
(* whether the write succeeded or failed; one-shot writes never outnumber   *)
(* the requests raised; a failed grab leaves the request pending.           *)
C10_SaveOnceIsOneShot ==
    /\ [](oneShotWrites <= saveRequests)
    /\ [](save_data => oneShotWrites < saveRequests)
    /\ [](nOneShot <= 1)
    /\ [][ /\ (pc = "save" /\ save_data =>
                  /\ nOneShot' = 1
                  /\ oneShotWrites' = oneShotWrites + 1
                  /\ ~save_data')
           /\ (oneShotWrites' # oneShotWrites => (pc = "save" /\ save_data))
           /\ (GrabFailedStep => save_data' = save_data) ]_vars

C10_Witness ==
    /\ pc = "key"
    /\ nOneShot = 1
    /\ err = FAILURE
    /\ ~save_data
    /\ grab_status = SUCCESS
    /\ saveRequests = 1
    /\ iter >= 2

====
